---- MODULE Spec2Model ----
(***************************************************************************)
(* Model of nonebot_plugin_gemini_vision/__init__.py: the /gemini command  *)
(* handler (handle_gemini), image collection, the processing               *)
(* acknowledgement, the chat_with_gemini call and the response relay.      *)
(*                                                                         *)
(* Chinese string literals of the source are written as ASCII              *)
(* transliterations (TLA+ strings are ASCII); each one names its line.     *)
(* Python's None is the value None where a string is expected and the     *)
(* record NoBytes where a byte buffer is expected.                         *)
(***************************************************************************)
EXTENDS Integers, Sequences, FiniteSets, TLC

\* Bounds of the model.
MaxSegs == 3    \* segments of the referenced and the triggering message together

(***************************************************************************)
(* Values                                                                  *)
(***************************************************************************)

\* Byte buffers. k: "None" (Python None), "empty" (b""), "raw" (segment.raw),
\* "body" (body of a 200 response), "errbody" (body of a non-200 response),
\* "gen" (image produced by the API).  src/i name the segment the bytes
\* belong to, so that two images are never equal by accident.
Bytes(k, src, i) == [k |-> k, src |-> src, i |-> i]
NoBytes == Bytes("None", "-", 0)
EmptyBytes == Bytes("empty", "-", 0)
GenBytes == Bytes("gen", "-", 0)

\* Python truthiness of an Optional[bytes]: None and b"" are falsy.
Truthy(b) == b.k \notin {"None", "empty"}

\* Python's None where a string is expected.
None == "<None>"

\* session.id1 is Optional[str]; str(None) is "None" (line 158).
Ids == {None, "u1"}
Str(id) == IF id = None THEN "None" ELSE id

\* _help_str, lines 32-38.
HelpStr == "_help_str"
\* line 164: "qingchu lishi", "qingchu duihua lishi" transliterate the two
\* Chinese triggers.
ClearTriggers == {"qingchu lishi", "qingchu duihua lishi", "clear", "exit"}
\* line 176 and line 178.
HistoryCleared == "duihua lishi yi qingchu"
HistoryNotFound == "meiyou zhaodao duihua lishi"
\* lines 215 and 220: the acknowledgement with and without an image count.
ProcessingImages == "zhengzai chuli nin de qingqiu (baohan n zhang tupian)"
Processing == "zhengzai chuli nin de qingqiu"
\* line 244.
ProcessError == "chuli qingqiu shi chucuo: "

\* prompt: Match[str] -- available and result.
Prompts ==
  {[available |-> FALSE, result |-> None], [available |-> TRUE, result |-> ""]}
  \cup {[available |-> TRUE, result |-> r] : r \in ClearTriggers \cup {"hello"}}

\* UniMessage segments: Text(s) with a number formatted into it, or an image.
Text(s, n, e) == [t |-> "text", s |-> s, n |-> n, e |-> e, b |-> NoBytes]
Image(b) == [t |-> "image", s |-> "", n |-> 0, e |-> "", b |-> b]
\* UniMessage(x): a text segment, nothing for None.
UniMessage(x) == IF x = None THEN <<>> ELSE <<Text(x, 0, "")>>

\* Message segments read by to_image_data.
\*   typed     : segment.type == "image" and hasattr(segment, "data")
\*   alconna   : isinstance(segment, AlconnaImage)
\*   urlInData : "url" in segment.data
\*   url       : the url (segment.data["url"] / segment.url), by what a GET
\*               of it gives: None (no url), "ok" (200), "okEmpty" (200,
\*               empty body), "nf" (non-200), "down" (the request raises)
\*   raw       : "NoAttr" (no raw attribute), None, "bytes"
Urls == {None, "ok", "okEmpty", "nf", "down"}
Seg(ty, al, uid, url, raw) ==
  [typed |-> ty, alconna |-> al, urlInData |-> uid, url |-> url, raw |-> raw]
Raws == {"NoAttr", None, "bytes"}
\* the loop variable before the first iteration
NoSegment == Seg(FALSE, FALSE, FALSE, None, "NoAttr")
\* a segment that is no image (a text run)
TextSegment == Seg(FALSE, FALSE, FALSE, None, None)
\* an AlconnaImage always has the raw attribute
WellFormed(s) == ~(s.alconna /\ s.raw = "NoAttr")
TypedSegments ==
  {s \in {Seg(TRUE, al, FALSE, None, raw) : al \in BOOLEAN, raw \in Raws}
          \cup {Seg(TRUE, al, TRUE, url, raw) : al \in BOOLEAN, url \in Urls, raw \in Raws} :
     WellFormed(s)}
AlconnaSegments ==
  {Seg(FALSE, TRUE, FALSE, url, raw) : url \in Urls, raw \in {None, "bytes"}}
Segments == {TextSegment} \cup TypedSegments \cup AlconnaSegments
\* UniMessage.generate gives alconna segments: an AlconnaImage or no image
ReplySegments == {s \in Segments : s.alconna \/ ~s.typed}
\* a segment that is an image
IsImage(s) == s.typed \/ s.alconna
\* a GeminiResponse
Response(ok, text, image, error) ==
  [success |-> ok, text |-> text, image |-> image, error |-> error]
Responses ==
  {Response(TRUE, t, im, None) : t \in {None, "", "txt"}, im \in {NoBytes, GenBytes}}
  \cup {Response(FALSE, None, NoBytes, e) : e \in {None, "err"}}
  \cup {Response(FALSE, "txt", GenBytes, "err")}
NoResponse == Response(FALSE, None, NoBytes, None)

(***************************************************************************)
(* State                                                                   *)
(***************************************************************************)
VARIABLES
  pc,             \* position of the handler
  history,        \* core: the user ids that have a conversation entry
  id1, prompt,    \* the incoming command: session.id1 and the prompt match
  user_id,        \* handle_gemini local
  image_list,     \* collect_images local, then the argument passed on
  message_images, \* extract_images_from_message local
  segment, src, idx,   \* loop variable and its position
  nsegs,          \* segments read so far from the two messages
  img_bytes,      \* result of to_image_data(segment)
  fetched,        \* whether an HTTP GET was issued for segment
  nReply, nMsg,   \* images in the referenced / triggering message
  dropped,        \* images for which to_image_data gave no data
  lost,           \* images never looked at, their message failing to be read
  sent,           \* messages handed to send/finish, each with its outcome
  cleared,        \* arguments of the clear_conversation_history calls
  success,        \* handle_clear_history local
  chats,          \* arguments of the chat_with_gemini calls
  response,       \* process_gemini_request local
  exc,            \* exception in flight in process_gemini_request
  outcome         \* how the handler ended

vars ==
  <<pc, history, id1, prompt, user_id, image_list, message_images, segment, src,
    idx, nsegs, img_bytes, fetched, nReply, nMsg, dropped, lost, sent, cleared,
    success, chats, response, exc, outcome>>

collectVars ==
  <<image_list, message_images, segment, src, idx, nsegs, img_bytes, fetched,
    nReply, nMsg, dropped, lost>>

(***************************************************************************)
(* Image data of one segment                                               *)
(***************************************************************************)

\* What session.get(url) gives: the request raises, or answers with a status
\* and a body.  A url of None makes the request raise.
Web(url, s, i) ==
  CASE url = "ok"      -> [raises |-> FALSE, status |-> 200, body |-> Bytes("body", s, i)]
    [] url = "okEmpty" -> [raises |-> FALSE, status |-> 200, body |-> EmptyBytes]
    [] url = "nf"      -> [raises |-> FALSE, status |-> 404, body |-> Bytes("errbody", s, i)]
    [] OTHER           -> [raises |-> TRUE, status |-> 0, body |-> NoBytes]

\* get_image_data_from_url without the status check of line 82.
get_image_data_from_url_AnyStatus(url, s, i) ==
  LET resp == Web(url, s, i)
  IN  IF resp.raises THEN NoBytes ELSE resp.body

\* get_image_data_from_url: None when the request raises or the status is
\* not 200, the body otherwise.
get_image_data_from_url(url, s, i) ==
  LET resp == Web(url, s, i)
  IN  IF resp.raises THEN NoBytes
      ELSE IF resp.status # 200 THEN NoBytes
      ELSE resp.body

\* The call of get_image_data_from_url, with whether a GET went out.
Fetch(url, s, i) ==
  [data |-> get_image_data_from_url(url, s, i), fetched |-> url # None]
NoFetch(b) == [data |-> b, fetched |-> FALSE]

\* to_image_data: the bytes of a segment, or None.
to_image_data(seg, s, i) ==
  IF seg.typed
    THEN IF seg.urlInData
           THEN Fetch(seg.url, s, i)
           ELSE IF seg.raw \notin {"NoAttr", None}
                  THEN NoFetch(Bytes("raw", s, i))
                  ELSE NoFetch(NoBytes)
    ELSE IF seg.alconna
           THEN IF seg.raw # None
                  THEN NoFetch(Bytes("raw", s, i))
                  ELSE IF seg.url # None
                         THEN Fetch(seg.url, s, i)
                         ELSE NoFetch(NoBytes)
           ELSE NoFetch(NoBytes)

(***************************************************************************)
(* The conversation history store and the remote call (core)               *)
(***************************************************************************)

\* clear(user_id) -> bool: true if an entry existed and was removed.
ClearResult(h, u) == u \in h
ClearedHistory(h, u) == h \ {u}
\* the entry is created on the first message of a user, then appended to
AppendedHistory(h, u) == h \cup {u}

(***************************************************************************)
(* Sending                                                                 *)
(***************************************************************************)

\* UniMessage(...).reply(id=msg_id) and a message that replies to nothing
Reply(segs) == [segs |-> segs, reply |-> TRUE]
Plain(segs) == [segs |-> segs, reply |-> FALSE]
\* a message handed to send / finish, and whether the adapter delivered it
Sent(msg, ok) == [segs |-> msg.segs, reply |-> msg.reply, ok |-> ok]

\* Matcher.send: the message goes out, or the adapter raises.
\* Matcher.finish: send, then raise FinishedException.
SendRaises == "ActionFailed"

(***************************************************************************)
(* The handler                                                             *)
(***************************************************************************)

Init ==
  /\ pc = "idle"
  /\ history = {}
  /\ id1 = None
  /\ prompt = [available |-> FALSE, result |-> None]
  /\ user_id = None
  /\ image_list = <<>>
  /\ message_images = <<>>
  /\ segment = NoSegment
  /\ src = "-"
  /\ idx = 0
  /\ nsegs = 0
  /\ img_bytes = NoBytes
  /\ fetched = FALSE
  /\ nReply = 0
  /\ nMsg = 0
  /\ dropped = 0
  /\ lost = 0
  /\ sent = <<>>
  /\ cleared = <<>>
  /\ success = FALSE
  /\ chats = <<>>
  /\ response = NoResponse
  /\ exc = None
  /\ outcome = None

\* The framework dispatches a /gemini command to handle_gemini.
Receive ==
  /\ pc = "idle"
  /\ id1' \in Ids
  /\ prompt' \in Prompts
  /\ pc' = "handle"
  /\ UNCHANGED <<history, user_id, sent, cleared, success, chats, response,
                 exc, outcome>>
  /\ UNCHANGED collectVars

\* The run of the handler is over; the next command finds fresh locals.
Complete ==
  /\ pc = "done"
  /\ pc' = "idle"
  /\ id1' = None
  /\ prompt' = [available |-> FALSE, result |-> None]
  /\ user_id' = None
  /\ image_list' = <<>>
  /\ message_images' = <<>>
  /\ segment' = NoSegment
  /\ src' = "-"
  /\ idx' = 0
  /\ nsegs' = 0
  /\ img_bytes' = NoBytes
  /\ fetched' = FALSE
  /\ nReply' = 0
  /\ nMsg' = 0
  /\ dropped' = 0
  /\ lost' = 0
  /\ sent' = <<>>
  /\ cleared' = <<>>
  /\ success' = FALSE
  /\ chats' = <<>>
  /\ response' = NoResponse
  /\ exc' = None
  /\ outcome' = None
  /\ UNCHANGED history

\* gemini_command.finish(msg) outside any try: the handler ends, by
\* FinishedException when the message went out.
FinishAndLeave(msg) ==
  \E ok \in BOOLEAN :
    /\ sent' = Append(sent, Sent(msg, ok))
    /\ outcome' = IF ok THEN "FinishedException" ELSE SendRaises
    /\ pc' = "done"

\* handle_clear_history with the two replies exchanged.
handle_clear_history_Swapped(u) ==
  LET ok == ClearResult(history, u)
  IN  /\ cleared' = Append(cleared, u)
      /\ history' = ClearedHistory(history, u)
      /\ success' = ok
      /\ IF ok
           THEN FinishAndLeave(Reply(UniMessage(HistoryNotFound)))
           ELSE FinishAndLeave(Reply(UniMessage(HistoryCleared)))

\* handle_clear_history, lines 172-178.
handle_clear_history(u) ==
  LET ok == ClearResult(history, u)
  IN  /\ cleared' = Append(cleared, u)
      /\ history' = ClearedHistory(history, u)
      /\ success' = ok
      /\ IF ok
           THEN FinishAndLeave(Reply(UniMessage(HistoryCleared)))
           ELSE FinishAndLeave(Reply(UniMessage(HistoryNotFound)))

\* handle_gemini with the help text sent by send instead of finish: the
\* handler goes on after the help reply.
HandleGemini_HelpSent ==
  /\ pc = "handle"
  /\ user_id' = Str(id1)
  /\ IF ~prompt.available \/ prompt.result = ""
       THEN /\ \E ok \in BOOLEAN :
                 sent' = Append(sent, Sent(Reply(UniMessage(HelpStr)), ok))
            /\ pc' = "collect"
            /\ UNCHANGED <<history, cleared, success, outcome>>
       ELSE IF prompt.result \in ClearTriggers
              THEN handle_clear_history(Str(id1))
              ELSE /\ pc' = "collect"
                   /\ UNCHANGED <<history, cleared, success, sent, outcome>>
  /\ UNCHANGED <<id1, prompt, chats, response, exc>>
  /\ UNCHANGED collectVars

\* handle_gemini, lines 158-165: the help reply, the clear-history reply, or
\* on to image collection.
HandleGemini ==
  /\ pc = "handle"
  /\ user_id' = Str(id1)
  /\ IF ~prompt.available \/ prompt.result = ""
       THEN /\ FinishAndLeave(Reply(UniMessage(HelpStr)))
            /\ UNCHANGED <<history, cleared, success>>
       ELSE IF prompt.result \in ClearTriggers
              THEN handle_clear_history(Str(id1))
              ELSE /\ pc' = "collect"
                   /\ UNCHANGED <<history, cleared, success, sent, outcome>>
  /\ UNCHANGED <<id1, prompt, chats, response, exc>>
  /\ UNCHANGED collectVars

\* collect_images, lines 187-192: the referenced message, if any, is turned
\* into a UniMessage; an exception of that is logged and the images of the
\* referenced message are lost.
CollectReply ==
  /\ pc = "collect"
  /\ \/ \* no reply
        /\ pc' = "message"
        /\ UNCHANGED <<nReply, lost, nsegs>>
     \/ \* UniMessage.generate raises: m images are never looked at
        /\ \E m \in 1..MaxSegs :
             /\ nReply' = m
             /\ lost' = lost + m
             /\ nsegs' = nsegs + m
        /\ pc' = "message"
     \/ /\ pc' = "replyloop"
        /\ UNCHANGED <<nReply, lost, nsegs>>
  /\ src' = "reply"
  /\ idx' = 0
  /\ UNCHANGED <<history, id1, prompt, user_id, image_list, message_images,
                 segment, img_bytes, fetched, nMsg, dropped, sent, cleared,
                 success, chats, response, exc, outcome>>

\* One iteration of the loop of lines 193-197 over the segment seg.
ReplyStep(seg) ==
  LET r == to_image_data(seg, "reply", idx + 1)
  IN  /\ segment' = seg
      /\ idx' = idx + 1
      /\ nsegs' = nsegs + 1
      /\ IF seg.alconna
           THEN /\ img_bytes' = r.data
                /\ fetched' = r.fetched
                /\ nReply' = nReply + 1
                /\ IF Truthy(r.data)
                     THEN /\ image_list' = Append(image_list, r.data)
                          /\ UNCHANGED dropped
                     ELSE /\ dropped' = dropped + 1
                          /\ UNCHANGED image_list
           ELSE /\ img_bytes' = NoBytes
                /\ fetched' = FALSE
                /\ UNCHANGED <<nReply, dropped, image_list>>

ReplySegment ==
  /\ pc = "replyloop"
  /\ nsegs < MaxSegs
  /\ \E seg \in ReplySegments : ReplyStep(seg)
  /\ UNCHANGED <<pc, history, id1, prompt, user_id, message_images, src, nMsg,
                 lost, sent, cleared, success, chats, response, exc, outcome>>

\* The loop over the referenced message ends.
ReplyDone ==
  /\ pc = "replyloop"
  /\ pc' = "message"
  /\ UNCHANGED <<history, id1, prompt, user_id, sent, cleared, success, chats,
                 response, exc, outcome>>
  /\ UNCHANGED collectVars

\* collect_images returns (line 207): its loop variables are gone.
LoopVarsGone ==
  /\ message_images' = <<>>
  /\ segment' = NoSegment
  /\ src' = "-"
  /\ idx' = 0
  /\ nsegs' = 0
  /\ img_bytes' = NoBytes
  /\ fetched' = FALSE

\* collect_images, lines 201-205, entering extract_images_from_message: an
\* exception of event.get_message() is logged and the images of the message
\* are lost.
CollectMessage ==
  /\ pc = "message"
  /\ \/ \* event.get_message() raises: n images are never looked at
        /\ \E n \in 1..MaxSegs :
             /\ nsegs + n <= MaxSegs
             /\ nMsg' = n
             /\ lost' = lost + n
        /\ pc' = "ack"
        /\ LoopVarsGone
     \/ /\ pc' = "msgloop"
        /\ src' = "msg"
        /\ idx' = 0
        /\ message_images' = <<>>
        /\ UNCHANGED <<nMsg, lost, segment, img_bytes, fetched, nsegs>>
  /\ UNCHANGED <<history, id1, prompt, user_id, image_list, nReply, dropped,
                 sent, cleared, success, chats, response, exc, outcome>>

\* One iteration of the loop of extract_images_from_message, lines 126-129.
MessageStep(seg) ==
  LET r == to_image_data(seg, "msg", idx + 1)
  IN  /\ segment' = seg
      /\ idx' = idx + 1
      /\ nsegs' = nsegs + 1
      /\ img_bytes' = r.data
      /\ fetched' = r.fetched
      /\ nMsg' = IF IsImage(seg) THEN nMsg + 1 ELSE nMsg
      /\ IF Truthy(r.data)
           THEN /\ message_images' = Append(message_images, r.data)
                /\ UNCHANGED dropped
           ELSE /\ dropped' = IF IsImage(seg) THEN dropped + 1 ELSE dropped
                /\ UNCHANGED message_images

MessageSegment ==
  /\ pc = "msgloop"
  /\ nsegs < MaxSegs
  /\ \E seg \in Segments : MessageStep(seg)
  /\ UNCHANGED <<pc, history, id1, prompt, user_id, image_list, src, nReply,
                 lost, sent, cleared, success, chats, response, exc, outcome>>

\* the images of the message put in front of the list instead of behind it
Extend_Prepend(list, more) == more \o list

\* line 203: collect_images extends its list with the images of the message
Extend(list, more) == list \o more

\* extract_images_from_message returns (line 131), the list is extended
\* (line 203) and collect_images returns (line 207).
MessageDone ==
  /\ pc = "msgloop"
  /\ image_list' = Extend(image_list, message_images)
  /\ pc' = "ack"
  /\ LoopVarsGone
  /\ UNCHANGED <<history, id1, prompt, user_id, nReply, nMsg, dropped, lost,
                 sent, cleared, success, chats, response, exc, outcome>>

\* send_processing_message, lines 210-221: the text of the acknowledgement.
ProcessingMessage(list) ==
  IF Len(list) > 0
    THEN Reply(<<Text(ProcessingImages, Len(list), "")>>)
    ELSE Reply(UniMessage(Processing))

\* send_processing_message: gemini_command.send outside any try.
SendProcessingMessage ==
  /\ pc = "ack"
  /\ \E ok \in BOOLEAN :
       /\ sent' = Append(sent, Sent(ProcessingMessage(image_list), ok))
       /\ IF ok
            THEN /\ pc' = "chat"
                 /\ UNCHANGED outcome
            ELSE /\ pc' = "done"
                 /\ outcome' = SendRaises
  /\ UNCHANGED <<history, id1, prompt, user_id, cleared, success, chats,
                 response, exc>>
  /\ UNCHANGED collectVars

\* the arguments of chat_with_gemini, lines 231-235
ChatArgs(p, u, list) == [prompt |-> p, user_id |-> u, image_list |-> list]

\* process_gemini_request, lines 230-235: the remote call returns a
\* GeminiResponse or raises.
ChatWithGemini ==
  /\ pc = "chat"
  /\ chats' = Append(chats, ChatArgs(prompt.result, user_id, image_list))
  /\ \/ \E r \in Responses :
          /\ response' = r
          /\ history' = IF r.success THEN AppendedHistory(history, user_id)
                        ELSE history
          /\ pc' = "respond"
          /\ UNCHANGED exc
     \/ /\ exc' = "Exception"
        /\ pc' = "except"
        /\ UNCHANGED <<response, history>>
  /\ UNCHANGED <<id1, prompt, user_id, sent, cleared, success, outcome>>
  /\ UNCHANGED collectVars

\* Python truthiness of an Optional[str]
TruthyStr(x) == x \notin {None, ""}

\* send_gemini_response without the success check of line 136.
GeminiMessage_NoSuccessCheck(r) ==
  Reply((IF TruthyStr(r.text) THEN UniMessage(r.text) ELSE <<>>)
        \o (IF Truthy(r.image) THEN <<Image(r.image)>> ELSE <<>>))

\* send_gemini_response without the test of line 141: the text is added
\* whatever it is.
GeminiMessage_TextAlways(r) ==
  IF ~r.success
    THEN Plain(UniMessage(r.error))
    ELSE Reply(<<Text(r.text, 0, "")>>
               \o (IF Truthy(r.image) THEN <<Image(r.image)>> ELSE <<>>))

\* send_gemini_response, lines 136-146: the message built for a response.
GeminiMessage(r) ==
  IF ~r.success
    THEN Plain(UniMessage(r.error))
    ELSE Reply((IF TruthyStr(r.text) THEN UniMessage(r.text) ELSE <<>>)
               \o (IF Truthy(r.image) THEN <<Image(r.image)>> ELSE <<>>))

\* send_gemini_response called at line 237, inside the try: finish raises
\* FinishedException once the message went out, or the adapter's exception.
SendGeminiResponse ==
  /\ pc = "respond"
  /\ \E ok \in BOOLEAN :
       /\ sent' = Append(sent, Sent(GeminiMessage(response), ok))
       /\ exc' = IF ok THEN "FinishedException" ELSE SendRaises
  /\ pc' = "except"
  /\ UNCHANGED <<history, id1, prompt, user_id, cleared, success, chats,
                 response, outcome>>
  /\ UNCHANGED collectVars

\* process_gemini_request without the except clause of lines 239-240
Swallowed_Never(e) == FALSE

\* line 239: the except clause that takes FinishedException and passes
Swallowed(e) == e = "FinishedException"

\* process_gemini_request, lines 239-244: FinishedException is passed over
\* and the handler returns; any other exception is reported with finish.
ProcessExcept ==
  /\ pc = "except"
  /\ IF Swallowed(exc)
       THEN /\ pc' = "done"
            /\ outcome' = "returned"
            /\ UNCHANGED sent
       ELSE FinishAndLeave(Plain(<<Text(ProcessError, 0, exc)>>))
  /\ UNCHANGED <<history, id1, prompt, user_id, cleared, success, chats,
                 response, exc>>
  /\ UNCHANGED collectVars

Next ==
  \/ Receive
  \/ HandleGemini
  \/ CollectReply
  \/ ReplySegment
  \/ ReplyDone
  \/ CollectMessage
  \/ MessageSegment
  \/ MessageDone
  \/ SendProcessingMessage
  \/ ChatWithGemini
  \/ SendGeminiResponse
  \/ ProcessExcept
  \/ Complete

Spec == Init /\ [][Next]_vars

(***************************************************************************)
(* Properties                                                              *)
(***************************************************************************)

\* the prompt is absent or empty
NoPrompt == ~prompt.available \/ prompt.result = ""
\* the prompt is one of the clear-history triggers
ClearPrompt == prompt.available /\ prompt.result \in ClearTriggers
\* the handler has run past its first step
Handled == pc \notin {"idle", "handle"}
\* the texts of the processing acknowledgement
AckTexts == {Processing, ProcessingImages}
IsAck(m) == Len(m.segs) = 1 /\ m.segs[1].s \in AckTexts /\ m.reply
\* the text segments and the image segments of a message
TextSegs(m) == {k \in 1..Len(m.segs) : m.segs[k].t = "text"}
ImageSegs(m) == {k \in 1..Len(m.segs) : m.segs[k].t = "image"}

\* C1: a /gemini command whose prompt is absent or empty is answered by
\* exactly one message, the help text as a reply to the command, and the
\* handler ends there: the history is not cleared, no acknowledgement is
\* sent and chat_with_gemini is not called.
C1_HelpOnly ==
  (Handled /\ NoPrompt) =>
    /\ pc = "done"
    /\ Len(sent) = 1
    /\ sent[1].segs = <<Text(HelpStr, 0, "")>>
    /\ sent[1].reply
    /\ cleared = <<>>
    /\ chats = <<>>
    /\ outcome \in {"FinishedException", SendRaises}

C1_Witness ==
  /\ pc = "done"
  /\ prompt.available
  /\ prompt.result = ""
  /\ Len(sent) = 1
  /\ sent[1].ok
  /\ history # {}

\* C2: for a prompt that is a clear-history trigger, the step of the handler
\* calls clear_conversation_history once, with str(session.id1); the call
\* returns true exactly when that user had an entry, which is removed; and
\* the one reply is "history cleared" when it returned true and "no history
\* found" when it returned false.  Nothing else is sent and the handler ends.
C2_ClearHistory ==
  [][(pc = "handle" /\ ClearPrompt) =>
       /\ cleared' = <<Str(id1)>>
       /\ success' = (Str(id1) \in history)
       /\ history' = history \ {Str(id1)}
       /\ Len(sent') = 1
       /\ sent'[1].reply
       /\ (sent'[1].segs = <<Text(HistoryCleared, 0, "")>>) = success'
       /\ (sent'[1].segs = <<Text(HistoryNotFound, 0, "")>>) = ~success'
       /\ chats' = <<>>
       /\ pc' = "done"]_vars

C2_Witness ==
  /\ pc = "done"
  /\ ClearPrompt
  /\ success
  /\ cleared = <<"u1">>
  /\ history = {"None"}
  /\ sent[1].segs = <<Text(HistoryCleared, 0, "")>>

\* the entries of a list are in source order, those of the referenced
\* message before those of the triggering message
SourceOrder(list) ==
  \A i, j \in 1..Len(list) :
    i < j => \/ list[i].src = "reply" /\ list[j].src = "msg"
             \/ list[i].src = list[j].src /\ list[i].i < list[j].i

\* C3 as stated: the list collect_images returns has exactly N+M entries, in
\* source order, referenced-message images first (already when both messages
\* were read without an exception).
C3_Original ==
  (pc = "ack" /\ lost = 0) =>
    /\ Len(image_list) = nReply + nMsg
    /\ SourceOrder(image_list)

\* C3, amended: the list collect_images returns has one entry for each of
\* the N+M images that yielded data (so at most N+M entries, and N+M when
\* none was dropped or lost), in source order, referenced-message images
\* first.
C3_Collected ==
  pc = "ack" =>
    /\ Len(image_list) = nReply + nMsg - dropped - lost
    /\ Len(image_list) <= nReply + nMsg
    /\ \A k \in 1..Len(image_list) : Truthy(image_list[k])
    /\ SourceOrder(image_list)

C3_Witness ==
  /\ pc = "ack"
  /\ nReply >= 1
  /\ nMsg >= 1
  /\ dropped = 1
  /\ lost = 0
  /\ Len(image_list) = 2
  /\ image_list[1].src = "reply"
  /\ image_list[2].src = "msg"

\* the GET of the current segment answered with a non-200 status or raised
FetchFailed(seg, got) == got /\ seg.url \in {"nf", "down"}

\* C4: the iteration over an image segment whose GET answers with a non-200
\* status, or raises, yields None; the lists collected so far are left as
\* they are, the loop goes on, and no exception leaves the collection.
C4_FailedFetchOmitted ==
  [][(idx' = idx + 1 /\ FetchFailed(segment', fetched')) =>
       /\ img_bytes' = NoBytes
       /\ image_list' = image_list
       /\ message_images' = message_images
       /\ pc' = pc
       /\ pc' \in {"replyloop", "msgloop"}
       /\ outcome' = None
       /\ exc' = None]_vars

C4_Witness ==
  /\ pc = "msgloop"
  /\ FetchFailed(segment, fetched)
  /\ segment.url = "nf"
  /\ img_bytes = NoBytes
  /\ idx = 2
  /\ Len(image_list) = 1
  /\ Len(message_images) = 1
  /\ message_images[1].i = 1

\* to_image_data has been called on the current segment
Converted ==
  /\ pc \in {"replyloop", "msgloop"}
  /\ idx > 0
  /\ src = "reply" => segment.alconna

\* C5 as stated: for an image segment that carries raw bytes those bytes are
\* used and no GET is issued; a GET is issued only for a segment that carries
\* a url and no raw bytes; a body is used only when the status is 200.
C5_RawBytesFirst ==
  (Converted /\ IsImage(segment)) =>
    /\ segment.raw = "bytes" => (img_bytes = Bytes("raw", src, idx) /\ ~fetched)
    /\ fetched => (segment.raw # "bytes" /\ segment.url # None)
    /\ img_bytes.k \in {"body", "errbody"} =>
         (fetched /\ Web(segment.url, src, idx).status = 200)

\* the message handed to finish by send_gemini_response
ResponseSent == pc = "except" /\ exc # "Exception"

\* C6: for a response with success = false the message send_gemini_response
\* hands to finish holds the error string and nothing else: no text of the
\* response, no image, no acknowledgement text.
C6_FailureOnlyError ==
  (ResponseSent /\ ~response.success) =>
    LET m == sent[Len(sent)]
    IN  /\ m.segs = IF response.error = None THEN <<>>
                    ELSE <<Text(response.error, 0, "")>>
        /\ ImageSegs(m) = {}
        /\ \A k \in TextSegs(m) : m.segs[k].s \notin AckTexts \cup {response.text}

C6_Witness ==
  /\ ResponseSent
  /\ ~response.success
  /\ response.text = "txt"
  /\ response.image = GenBytes
  /\ sent[Len(sent)].segs = <<Text("err", 0, "")>>

\* C7: for a response with success = true the one message handed to finish
\* is a reply to the command; it holds the text exactly when the text is
\* present (not None, not empty) and one image attachment exactly when an
\* image is present; for an image and no text it is that one image alone.
C7_SuccessMessage ==
  (ResponseSent /\ response.success) =>
    LET m == sent[Len(sent)]
    IN  /\ Len(sent) = 2
        /\ m.reply
        /\ TextSegs(m) # {} <=> TruthyStr(response.text)
        /\ \A k \in TextSegs(m) : m.segs[k] = Text(response.text, 0, "")
        /\ Cardinality(TextSegs(m)) <= 1
        /\ Cardinality(ImageSegs(m)) = IF Truthy(response.image) THEN 1 ELSE 0
        /\ \A k \in ImageSegs(m) : m.segs[k].b = response.image
        /\ (~TruthyStr(response.text) /\ Truthy(response.image))
             => m.segs = <<Image(response.image)>>

C7_Witness ==
  /\ ResponseSent
  /\ response.success
  /\ response.text = None
  /\ response.image = GenBytes
  /\ sent[2].segs = <<Image(GenBytes)>>
  /\ sent[2].ok

\* a message is the generic error report of line 244
IsErrorReport(m) == \E k \in 1..Len(m.segs) : m.segs[k].s = ProcessError

\* C8: when chat_with_gemini raised, the handler ends having handed to
\* finish the generic error message with the text of the exception; when
\* finish raised FinishedException (the response went out), the handler
\* returns and no error message is sent.
C8_ErrorReported ==
  /\ (pc = "done" /\ exc = "Exception") =>
       /\ Len(sent) = 2
       /\ sent[2].segs = <<Text(ProcessError, 0, "Exception")>>
       /\ Len(chats) = 1
  /\ (pc = "done" /\ exc = "FinishedException") =>
       /\ outcome = "returned"
       /\ Len(sent) = 2
       /\ sent[2].ok
       /\ \A k \in 1..Len(sent) : ~IsErrorReport(sent[k])

C8_Witness ==
  /\ pc = "done"
  /\ exc = "Exception"
  /\ Len(sent) = 2
  /\ sent[2].ok
  /\ IsErrorReport(sent[2])
  /\ outcome = "FinishedException"

\* the prompt takes the handler to the remote call
ChatPrompt == ~NoPrompt /\ ~ClearPrompt

\* C9 as stated: on the path that collects images, acknowledges, calls the
\* API and responds, no exception other than the framework's
\* FinishedException leaves the handler.
C9_NothingEscapes ==
  (pc = "done" /\ ChatPrompt) => outcome \in {"FinishedException", "returned"}

\* C10 as stated: a request that has ended took the help path, the
\* clear-history path, or the path acknowledgement, one chat_with_gemini
\* call with the images counted in the acknowledgement, one last message.
C10_ThreePaths ==
  pc = "done" =>
    \/ /\ NoPrompt
       /\ Len(sent) = 1
       /\ sent[1].segs = <<Text(HelpStr, 0, "")>>
       /\ cleared = <<>>
       /\ chats = <<>>
    \/ /\ ClearPrompt
       /\ Len(cleared) = 1
       /\ Len(sent) = 1
       /\ ~IsAck(sent[1])
       /\ chats = <<>>
    \/ /\ ChatPrompt
       /\ cleared = <<>>
       /\ Len(sent) = 2
       /\ IsAck(sent[1])
       /\ Len(chats) = 1
       /\ sent[1].segs[1].n = Len(chats[1].image_list)
       /\ chats[1].image_list = image_list
       /\ ~IsAck(sent[2])

====
